---- MODULE Spec2Model ----
(***************************************************************************)
(* Model of libdynemit: CPU capability probing (detect_simd_level), the    *)
(* cached, lock-free detector (detect_simd_level_ts), the fail-fast        *)
(* resolver wrapper (EXPLICIT_RUNTIME_RESOLVER) and the ifunc binding of   *)
(* vector_sub_f32.                                                         *)
(***************************************************************************)
EXTENDS Integers, FiniteSets, Sequences, TLC

(***************************************************************************)
(* Bounds of the model.                                                    *)
(***************************************************************************)
NumThreads == 2
MaxCalls == 4
MaxJunk == 3
MaxN == 33

Threads == 1..NumThreads

(***************************************************************************)
(* simd_level_t (include/dynemit/core.h).                                  *)
(***************************************************************************)
SIMD_SCALAR == 0
SIMD_SSE2 == 1
SIMD_SSE4_2 == 2
SIMD_AVX == 3
SIMD_AVX2 == 4
SIMD_AVX512F == 5

Tiers == SIMD_SCALAR..SIMD_AVX512F

(***************************************************************************)
(* Unsigned integer helpers: x >> n and x & y on naturals.                 *)
(***************************************************************************)
Shr(x, n) == x \div (2 ^ n)

RECURSIVE BitAnd(_, _)
BitAnd(x, y) ==
    IF x = 0 \/ y = 0 THEN 0
    ELSE (x % 2) * (y % 2) + 2 * BitAnd(x \div 2, y \div 2)

(***************************************************************************)
(* The machine the process runs on: the build architecture, the registers  *)
(* the cpuid instruction yields for leaves 0, 1 and 7, and the value of    *)
(* XCR0.  Only the register bits the prober looks at are varied.           *)
(***************************************************************************)
Leaf0EaxValues == {0, 1, 7}
Leaf1EcxValues == {s * (2 ^ 20) + o * (2 ^ 27) + a * (2 ^ 28) :
                       s \in {0, 1}, o \in {0, 1}, a \in {0, 1}}
Leaf1EdxValues == {s * (2 ^ 26) : s \in {0, 1}}
Leaf7EbxValues == {a * (2 ^ 5) + f * (2 ^ 16) : a \in {0, 1}, f \in {0, 1}}
Xcr0Values == {b1 * 2 + b2 * 4 + b5 * 32 + b6 * 64 + b7 * 128 :
                   b1 \in {0, 1}, b2 \in {0, 1}, b5 \in {0, 1},
                   b6 \in {0, 1}, b7 \in {0, 1}}

Machines == [x86 : BOOLEAN, eax0 : Leaf0EaxValues, ecx1 : Leaf1EcxValues,
             edx1 : Leaf1EdxValues, ebx7 : Leaf7EbxValues, xcr0 : Xcr0Values]

\* Machines as processors and operating systems present them: each feature
\* bit implies the older ones, ZMM state is enabled only together with YMM
\* state, XCR0 is non-zero only when OSXSAVE is set, and a build without
\* cpuid or a processor without leaf 1 has no feature registers to read.
Chain(c) ==
    LET sse2 == Shr(c.edx1, 26) % 2
        sse42 == Shr(c.ecx1, 20) % 2
        osxsave == Shr(c.ecx1, 27) % 2
        avx == Shr(c.ecx1, 28) % 2
        avx2 == Shr(c.ebx7, 5) % 2
        avx512f == Shr(c.ebx7, 16) % 2
    IN  /\ avx512f <= avx2 /\ avx2 <= avx /\ avx <= sse42 /\ sse42 <= sse2
        /\ c.xcr0 \in {0, 6, 230}
        /\ (osxsave = 0) = (c.xcr0 = 0)
        /\ c.eax0 \in {0, 7}
        /\ (~c.x86 \/ c.eax0 = 0) =>
               (c.ecx1 = 0 /\ c.edx1 = 0 /\ c.ebx7 = 0 /\ c.xcr0 = 0)
        /\ ~c.x86 => c.eax0 = 0

ConsistentMachines == {c \in Machines : Chain(c)}

(***************************************************************************)
(* cpuid_x86 and xgetbv_x86 (src/dynemit.c).                               *)
(***************************************************************************)
cpuid_x86(c, leaf) ==
    IF c.x86
    THEN CASE leaf = 0 -> [eax |-> c.eax0, ebx |-> 0, ecx |-> 0, edx |-> 0]
           [] leaf = 1 -> [eax |-> 0, ebx |-> 0, ecx |-> c.ecx1, edx |-> c.edx1]
           [] leaf = 7 -> [eax |-> 0, ebx |-> c.ebx7, ecx |-> 0, edx |-> 0]
           [] OTHER -> [eax |-> 0, ebx |-> 0, ecx |-> 0, edx |-> 0]
    ELSE [eax |-> 0, ebx |-> 0, ecx |-> 0, edx |-> 0]

xgetbv_x86(c, xcr) ==
    IF c.x86 THEN (IF xcr = 0 THEN c.xcr0 ELSE 0) ELSE 0

(***************************************************************************)
(* detect_simd_level (src/dynemit.c): the feature bits, the lane           *)
(* enablement and the descending priority of the tiers.                    *)
(***************************************************************************)
\* Features with xgetbv_x86(0) called whatever the OSXSAVE bit is.
FeaturesXgetbvAlways(c) ==
    LET l1 == cpuid_x86(c, 1)
        l7 == cpuid_x86(c, 7)
        osx == Shr(l1.ecx, 27) % 2
    IN  [sse2 |-> Shr(l1.edx, 26) % 2,
         sse42 |-> Shr(l1.ecx, 20) % 2,
         osxsave |-> osx,
         avx |-> Shr(l1.ecx, 28) % 2,
         xgetbv |-> TRUE,
         xcr0 |-> xgetbv_x86(c, 0),
         avx2 |-> Shr(l7.ebx, 5) % 2,
         avx512f |-> Shr(l7.ebx, 16) % 2]

\* The locals of detect_simd_level after lines 54-68; xgetbv tells whether
\* xgetbv_x86(0) was called on the way.
Features(c) ==
    LET l1 == cpuid_x86(c, 1)
        l7 == cpuid_x86(c, 7)
        osx == Shr(l1.ecx, 27) % 2
    IN  [sse2 |-> Shr(l1.edx, 26) % 2,
         sse42 |-> Shr(l1.ecx, 20) % 2,
         osxsave |-> osx,
         avx |-> Shr(l1.ecx, 28) % 2,
         xgetbv |-> osx # 0,
         xcr0 |-> IF osx # 0 THEN xgetbv_x86(c, 0) ELSE 0,
         avx2 |-> Shr(l7.ebx, 5) % 2,
         avx512f |-> Shr(l7.ebx, 16) % 2]

\* ymm_ok with a test for any of the two bits instead of both.
ymm_ok_any(f) == f.osxsave # 0 /\ BitAnd(f.xcr0, 6) # 0

ymm_ok(f) == f.osxsave # 0 /\ BitAnd(f.xcr0, 6) = 6

zmm_ok(f) == f.osxsave # 0 /\ BitAnd(f.xcr0, 224) = 224

\* Prioritize with the two narrow tiers tested in the wrong order.
PrioritizeNarrowSwapped(f) ==
    IF f.avx # 0 /\ f.avx512f # 0 /\ zmm_ok(f) THEN SIMD_AVX512F
    ELSE IF f.avx # 0 /\ f.avx2 # 0 /\ ymm_ok(f) THEN SIMD_AVX2
    ELSE IF f.avx # 0 /\ ymm_ok(f) THEN SIMD_AVX
    ELSE IF f.sse2 # 0 THEN SIMD_SSE2
    ELSE IF f.sse42 # 0 THEN SIMD_SSE4_2
    ELSE SIMD_SCALAR

Prioritize(f) ==
    IF f.avx # 0 /\ f.avx512f # 0 /\ zmm_ok(f) THEN SIMD_AVX512F
    ELSE IF f.avx # 0 /\ f.avx2 # 0 /\ ymm_ok(f) THEN SIMD_AVX2
    ELSE IF f.avx # 0 /\ ymm_ok(f) THEN SIMD_AVX
    ELSE IF f.sse42 # 0 THEN SIMD_SSE4_2
    ELSE IF f.sse2 # 0 THEN SIMD_SSE2
    ELSE SIMD_SCALAR

\* detect_simd_level without the test of the maximum leaf.
detect_simd_level_no_leaf0(c) ==
    IF ~c.x86 THEN SIMD_SCALAR
    ELSE Prioritize(Features(c))

detect_simd_level(c) ==
    IF ~c.x86 THEN SIMD_SCALAR
    ELSE IF cpuid_x86(c, 0).eax = 0 THEN SIMD_SCALAR
    ELSE Prioritize(Features(c))

\* Whether a call of detect_simd_level executes xgetbv_x86.
detect_simd_level_xgetbv(c) ==
    IF ~c.x86 THEN FALSE
    ELSE IF cpuid_x86(c, 0).eax = 0 THEN FALSE
    ELSE Features(c).xgetbv

(***************************************************************************)
(* Pointers handed out by resolvers.  NULL is the null pointer.            *)
(***************************************************************************)
NULL == "NULL"
Unbound == "unbound"

(***************************************************************************)
(* vector_sub_f32_resolver (features/vector_sub/vector_sub.c): the switch  *)
(* from tier to variant, and the resolver, which probes the hardware.      *)
(***************************************************************************)
\* The switch with case SIMD_SCALAR alone and a default that selects nothing.
vector_sub_f32_select_null_default(lvl) ==
    CASE lvl = SIMD_AVX512F -> "vector_sub_f32_avx512f"
      [] lvl = SIMD_AVX2 -> "vector_sub_f32_avx2"
      [] lvl = SIMD_AVX -> "vector_sub_f32_avx"
      [] lvl = SIMD_SSE4_2 -> "vector_sub_f32_sse42"
      [] lvl = SIMD_SSE2 -> "vector_sub_f32_sse2"
      [] lvl = SIMD_SCALAR -> "vector_sub_f32_scalar"
      [] OTHER -> NULL

vector_sub_f32_select(lvl) ==
    CASE lvl = SIMD_AVX512F -> "vector_sub_f32_avx512f"
      [] lvl = SIMD_AVX2 -> "vector_sub_f32_avx2"
      [] lvl = SIMD_AVX -> "vector_sub_f32_avx"
      [] lvl = SIMD_SSE4_2 -> "vector_sub_f32_sse42"
      [] lvl = SIMD_SSE2 -> "vector_sub_f32_sse2"
      [] OTHER -> "vector_sub_f32_scalar"

vector_sub_f32_resolver(c) == vector_sub_f32_select(detect_simd_level(c))

(***************************************************************************)
(* Selection functions written with EXPLICIT_RUNTIME_RESOLVER: the two of  *)
(* tests/test_resolver_macro.c, and a misconfigured one that maps the AVX  *)
(* family to no variant at all.                                            *)
(***************************************************************************)
sample_resolver_impl(lvl) ==
    CASE lvl \in {SIMD_AVX512F, SIMD_AVX2} -> "sample_func_avx2"
      [] lvl \in {SIMD_AVX, SIMD_SSE4_2, SIMD_SSE2} -> "sample_func_sse2"
      [] OTHER -> "sample_func_scalar"

scalar_only_resolver_impl(lvl) == "sample_func_scalar"

null_resolver_impl(lvl) ==
    IF lvl \in {SIMD_AVX, SIMD_AVX2, SIMD_AVX512F} THEN NULL
    ELSE "sample_func_scalar"

Resolvers == {"sample_resolver", "scalar_only_resolver", "null_resolver"}

resolver_impl(name, lvl) ==
    CASE name = "sample_resolver" -> sample_resolver_impl(lvl)
      [] name = "scalar_only_resolver" -> scalar_only_resolver_impl(lvl)
      [] name = "null_resolver" -> null_resolver_impl(lvl)

(***************************************************************************)
(* The wrapper EXPLICIT_RUNTIME_RESOLVER generates (include/dynemit/err.h):*)
(* a null result of name_impl() traps, any other result is returned.       *)
(***************************************************************************)
\* The wrapper without its null check.
ResolverNoTrap(result) == [trap |-> FALSE, result |-> result]

\* A wrapper that checks the result and then returns a fixed fallback.
ResolverDropsResult(result) ==
    [trap |-> result = NULL, result |-> "sample_func_scalar"]

EXPLICIT_RUNTIME_RESOLVER(result) ==
    IF result = NULL THEN [trap |-> TRUE, result |-> result]
    ELSE [trap |-> FALSE, result |-> result]

(***************************************************************************)
(* The atomic operations of detect_simd_level_ts (src/dynemit.c).          *)
(***************************************************************************)
CachedLevelInit == -1

\* expected initialised to a valid tier instead of the sentinel.
CasExpectedScalar == SIMD_SCALAR

CasExpected == -1

\* The compare-and-exchange with expected and desired interchanged.
atomic_compare_exchange_swapped(obj, expected, desired) ==
    IF obj = desired THEN [ok |-> TRUE, obj |-> expected]
    ELSE [ok |-> FALSE, obj |-> obj]

atomic_compare_exchange_strong(obj, expected, desired) ==
    IF obj = expected THEN [ok |-> TRUE, obj |-> desired]
    ELSE [ok |-> FALSE, obj |-> obj]

\* The test with <= in place of <.
NotYetInitializedOrScalar(lvl) == lvl <= 0

\* if (level < 0)
NotYetInitialized(lvl) == lvl < 0

\* The winner of the exchange keeps the level it loaded.
WonRaceStale(lvl, det) == lvl

\* We won the race: level = (int)detected
WonRaceLevel(lvl, det) == det

\* A lost exchange starts the call over.
LostRaceRetry == "load"

\* Someone else cached it first: go on to the second load, no retry.
LostRaceNext == "reload"

(***************************************************************************)
(* The binding of an ifunc symbol: the loader runs the resolver when the   *)
(* symbol is relocated and stores the target; a bound symbol is not        *)
(* relocated again.                                                        *)
(***************************************************************************)
\* A binding that runs the resolver again on every relocation request.
IfuncRelocateAlways(binding, c) ==
    [target |-> vector_sub_f32_resolver(c), ran |-> 1]

IfuncRelocate(binding, c) ==
    IF binding = Unbound
    THEN [target |-> vector_sub_f32_resolver(c), ran |-> 1]
    ELSE [target |-> binding, ran |-> 0]

(***************************************************************************)
(* The selection function of tests/test_cpp_resolver_macro.cpp, and the    *)
(* selection functions of the repository by name.                          *)
(***************************************************************************)
test_func_resolver_impl(lvl) ==
    CASE lvl = SIMD_AVX512F -> "test_func_avx512"
      [] lvl = SIMD_AVX2 -> "test_func_avx2"
      [] lvl = SIMD_AVX -> "test_func_avx"
      [] lvl \in {SIMD_SSE4_2, SIMD_SSE2} -> "test_func_sse2"
      [] OTHER -> "test_func_scalar"

\* simd_level_name with case SIMD_SCALAR left to the default.
simd_level_name_no_scalar(lvl) ==
    CASE lvl = SIMD_AVX512F -> "AVX-512F"
      [] lvl = SIMD_AVX2 -> "AVX2"
      [] lvl = SIMD_AVX -> "AVX"
      [] lvl = SIMD_SSE4_2 -> "SSE4.2"
      [] lvl = SIMD_SSE2 -> "SSE2"
      [] OTHER -> "Unknown"

\* simd_level_name (src/dynemit.c): the diagnostic name of a level.
simd_level_name(lvl) ==
    CASE lvl = SIMD_AVX512F -> "AVX-512F"
      [] lvl = SIMD_AVX2 -> "AVX2"
      [] lvl = SIMD_AVX -> "AVX"
      [] lvl = SIMD_SSE4_2 -> "SSE4.2"
      [] lvl = SIMD_SSE2 -> "SSE2"
      [] lvl = SIMD_SCALAR -> "Scalar"
      [] OTHER -> "Unknown"

SelectionFunctions ==
    {"vector_sub_f32_resolver", "sample_resolver", "scalar_only_resolver",
     "test_func_resolver"}

Select(name, lvl) ==
    CASE name = "vector_sub_f32_resolver" -> vector_sub_f32_select(lvl)
      [] name = "sample_resolver" -> sample_resolver_impl(lvl)
      [] name = "scalar_only_resolver" -> scalar_only_resolver_impl(lvl)
      [] name = "test_func_resolver" -> test_func_resolver_impl(lvl)

\* Values of type simd_level_t a switch can be handed: the six tiers and
\* values outside the enumeration.
LevelInputs == (SIMD_SCALAR - MaxJunk)..(SIMD_AVX512F + MaxJunk)

(***************************************************************************)
(* The kernels of features/vector_sub/vector_sub.c.  Memory is a function  *)
(* from addresses to binary32 values; the values used are small integers,  *)
(* on which binary32 subtraction is exact.  A kernel run is a record of    *)
(* the memory, the number of stores to each address, the addresses loaded  *)
(* and the loop index i.                                                   *)
(***************************************************************************)
Cap == MaxN + 16

BufferBase(which) ==
    CASE which = "a" -> 0
      [] which = "b" -> Cap
      [] which = "out" -> 2 * Cap

Addresses == 0..(3 * Cap - 1)

Sub(x, y) == x - y

KStart(m) ==
    [mem |-> m, writes |-> [x \in DOMAIN m |-> 0], reads |-> {}, i |-> 0]

\* A chunk computed as a copy of a followed by a subtraction of b in place.
SubChunkTwoPass(s, a, b, out, w) ==
    LET lanes == 0..(w - 1)
        copied == [x \in DOMAIN s.mem |->
                      IF x - out - s.i \in lanes
                      THEN s.mem[a + (x - out)] ELSE s.mem[x]]
    IN  [mem |-> [x \in DOMAIN s.mem |->
                     IF x - out - s.i \in lanes
                     THEN Sub(copied[x], copied[b + (x - out)])
                     ELSE s.mem[x]],
         writes |-> [x \in DOMAIN s.mem |->
                        IF x - out - s.i \in lanes
                        THEN s.writes[x] + 1 ELSE s.writes[x]],
         reads |-> s.reads \cup {a + s.i + k : k \in lanes}
                           \cup {b + s.i + k : k \in lanes},
         i |-> s.i + w]

\* One iteration of a loop of width w: load w lanes of a and of b at index
\* i, subtract lane by lane, store w lanes of out at index i, advance i.
SubChunk(s, a, b, out, w) ==
    LET lanes == 0..(w - 1)
        va == [k \in lanes |-> s.mem[a + s.i + k]]
        vb == [k \in lanes |-> s.mem[b + s.i + k]]
        vc == [k \in lanes |-> Sub(va[k], vb[k])]
    IN  [mem |-> [x \in DOMAIN s.mem |->
                     IF x - out - s.i \in lanes
                     THEN vc[x - out - s.i] ELSE s.mem[x]],
         writes |-> [x \in DOMAIN s.mem |->
                        IF x - out - s.i \in lanes
                        THEN s.writes[x] + 1 ELSE s.writes[x]],
         reads |-> s.reads \cup {a + s.i + k : k \in lanes}
                           \cup {b + s.i + k : k \in lanes},
         i |-> s.i + w]

\* A chunk loop that runs while any element is left.
ChunkCondOverrun(i, step, n) == i < n

\* for (; i + step <= n; i += step)
ChunkCond(i, step, n) == i + step <= n

\* The remainder loop entered once even when i = n.
TailCondInclusive(i, n) == i <= n

\* for (; i < n; i++)
TailCond(i, n) == i < n

RECURSIVE ChunkLoop(_, _, _, _, _, _)
ChunkLoop(s, a, b, out, n, step) ==
    IF ChunkCond(s.i, step, n)
    THEN ChunkLoop(SubChunk(s, a, b, out, step), a, b, out, n, step)
    ELSE s

RECURSIVE ScalarLoop(_, _, _, _, _)
ScalarLoop(s, a, b, out, n) ==
    IF TailCond(s.i, n)
    THEN ScalarLoop(SubChunk(s, a, b, out, 1), a, b, out, n)
    ELSE s

vector_sub_f32_scalar(m, a, b, out, n) ==
    ScalarLoop(KStart(m), a, b, out, n)

vector_sub_f32_sse2(m, a, b, out, n) ==
    ScalarLoop(ChunkLoop(KStart(m), a, b, out, n, 4), a, b, out, n)

vector_sub_f32_sse42(m, a, b, out, n) ==
    ScalarLoop(ChunkLoop(KStart(m), a, b, out, n, 4), a, b, out, n)

vector_sub_f32_avx(m, a, b, out, n) ==
    ScalarLoop(ChunkLoop(KStart(m), a, b, out, n, 8), a, b, out, n)

vector_sub_f32_avx2(m, a, b, out, n) ==
    ScalarLoop(ChunkLoop(KStart(m), a, b, out, n, 8), a, b, out, n)

\* The AVX-512F kernel without its remainder loop.
vector_sub_f32_avx512f_no_tail(m, a, b, out, n) ==
    ChunkLoop(KStart(m), a, b, out, n, 16)

vector_sub_f32_avx512f(m, a, b, out, n) ==
    ScalarLoop(ChunkLoop(KStart(m), a, b, out, n, 16), a, b, out, n)

Variants ==
    {"vector_sub_f32_scalar", "vector_sub_f32_sse2", "vector_sub_f32_sse42",
     "vector_sub_f32_avx", "vector_sub_f32_avx2", "vector_sub_f32_avx512f"}

RunVariant(v, m, a, b, out, n) ==
    CASE v = "vector_sub_f32_scalar" -> vector_sub_f32_scalar(m, a, b, out, n)
      [] v = "vector_sub_f32_sse2" -> vector_sub_f32_sse2(m, a, b, out, n)
      [] v = "vector_sub_f32_sse42" -> vector_sub_f32_sse42(m, a, b, out, n)
      [] v = "vector_sub_f32_avx" -> vector_sub_f32_avx(m, a, b, out, n)
      [] v = "vector_sub_f32_avx2" -> vector_sub_f32_avx2(m, a, b, out, n)
      [] v = "vector_sub_f32_avx512f" ->
             vector_sub_f32_avx512f(m, a, b, out, n)

\* The buffers of a call: a and b are separate; out is a third buffer, or
\* the buffer a, or the buffer b, at the same position.
AliasModes == {"none", "out_a", "out_b"}

OutAddr(alias) ==
    CASE alias = "none" -> BufferBase("out")
      [] alias = "out_a" -> BufferBase("a")
      [] alias = "out_b" -> BufferBase("b")

\* Contents of memory before a call: a[i] and b[i] follow two patterns
\* shifted by qa and qb, the third buffer holds a value no difference has.
TestMemory(qa, qb) ==
    [x \in Addresses |->
        IF x < BufferBase("b") THEN (x + qa) % 3
        ELSE IF x < BufferBase("out") THEN (2 * (x - BufferBase("b")) + qb) % 3
        ELSE 7]

NoMemory == [mem |-> <<>>, writes |-> <<>>, reads |-> {}, i |-> 0]

VARIABLES
    cpu,               \* the machine: architecture, cpuid registers, XCR0
    cached_level,      \* static _Atomic int cached_level
    pc,                \* where each thread is
    entry,             \* what each thread called: "direct" or a resolver
    level,             \* local level of detect_simd_level_ts
    detected,          \* local detected of detect_simd_level_ts
    calls,             \* calls the threads have started, all together
    ts_returns,        \* values detect_simd_level_ts has returned
    probed,            \* values detect_simd_level has returned to callers
    ts_probes,         \* runs of detect_simd_level inside detect_simd_level_ts
    resolver_returns,  \* <<resolver, pointer>> returned by wrapped resolvers
    trapped,           \* __builtin_trap() has ended the process
    vsub_binding,      \* target of the ifunc symbol vector_sub_f32
    vsub_resolutions,  \* runs of vector_sub_f32_resolver
    vsub_invoked,      \* variants calls of vector_sub_f32 have run
    sel_level,         \* the level handed to the selection functions
    sel_out,           \* <<selection function, pointer>> selected for it
    name_out,          \* names simd_level_name has returned for it
    xgetbv_executed,   \* xgetbv_x86 has been executed by some call
    early_calls,       \* calls of detect_simd_level_ts begun on an unresolved slot
    k_n,               \* the count n of a kernel call
    k_alias,           \* where out points in that call
    k_mem0,            \* memory before the call
    k_variant,         \* the variant that was called, "none" before
    k_res              \* the run of that variant

vars == <<cpu, cached_level, pc, entry, level, detected, calls, ts_returns,
          probed, ts_probes, resolver_returns, trapped, vsub_binding, vsub_resolutions,
          vsub_invoked, sel_level, sel_out, name_out, xgetbv_executed, early_calls, k_n, k_alias, k_mem0, k_variant,
          k_res>>

threadVars == <<pc, entry, level, detected, calls>>
vsubVars == <<vsub_binding, vsub_resolutions, vsub_invoked>>
selVars == <<sel_level, sel_out, name_out>>
kernelVars == <<k_n, k_alias, k_mem0, k_variant, k_res>>
processVars == <<cached_level, threadVars, ts_returns, probed, ts_probes,
                 xgetbv_executed, early_calls,
                 resolver_returns, trapped, vsubVars>>

InitProcess ==
    /\ cached_level = CachedLevelInit
    /\ pc = [t \in Threads |-> "idle"]
    /\ entry = [t \in Threads |-> "none"]
    /\ level = [t \in Threads |-> -1]
    /\ detected = [t \in Threads |-> -1]
    /\ calls = 0
    /\ ts_returns = {}
    /\ probed = {}
    /\ ts_probes = 0
    /\ xgetbv_executed = FALSE
    /\ early_calls = 0
    /\ resolver_returns = {}
    /\ trapped = FALSE
    /\ vsub_binding = Unbound
    /\ vsub_resolutions = 0
    /\ vsub_invoked = {}

\* No selection function has been applied.
InitSelectIdle ==
    /\ sel_level = SIMD_SCALAR
    /\ sel_out = {}
    /\ name_out = {}

\* No kernel has been called.
InitKernelIdle ==
    /\ k_n = 0
    /\ k_alias = "none"
    /\ k_mem0 = <<>>
    /\ k_variant = "none"
    /\ k_res = NoMemory

Init ==
    /\ cpu \in ConsistentMachines
    /\ InitProcess /\ InitSelectIdle /\ InitKernelIdle

InitProbe ==
    /\ cpu \in Machines
    /\ InitProcess /\ InitSelectIdle /\ InitKernelIdle

\* The machine of the runs that do not look at it.
AnyMachine == CHOOSE c \in ConsistentMachines : ~c.x86

InitSelect ==
    /\ cpu = AnyMachine
    /\ InitProcess /\ InitKernelIdle
    /\ sel_level \in LevelInputs
    /\ sel_out = {}
    /\ name_out = {}

InitKernel ==
    /\ cpu = AnyMachine
    /\ InitProcess /\ InitSelectIdle
    /\ k_n \in 0..MaxN
    /\ k_alias \in AliasModes
    /\ k_mem0 \in {TestMemory(qa, qb) : qa \in 0..2, qb \in 0..2}
    /\ k_variant = "none"
    /\ k_res = KStart(k_mem0)

\* A prober that answers from the cached slot when it is resolved and
\* resolves it when it is not.
DetectSimdLevelCached(t) ==
    /\ ~trapped
    /\ pc[t] = "idle"
    /\ probed' = probed \cup {IF cached_level \in Tiers THEN cached_level
                              ELSE detect_simd_level(cpu)}
    /\ cached_level' = IF cached_level \in Tiers THEN cached_level
                       ELSE detect_simd_level(cpu)
    /\ UNCHANGED ts_probes
    /\ xgetbv_executed' = (xgetbv_executed \/ detect_simd_level_xgetbv(cpu))
    /\ UNCHANGED early_calls
    /\ UNCHANGED <<selVars, kernelVars>>
    /\ UNCHANGED <<cpu, threadVars, ts_returns, resolver_returns, trapped,
                   vsubVars>>

(***************************************************************************)
(* A direct call of detect_simd_level() by thread t.                       *)
(***************************************************************************)
DetectSimdLevel(t) ==
    /\ ~trapped
    /\ pc[t] = "idle"
    /\ probed' = probed \cup {detect_simd_level(cpu)}
    /\ UNCHANGED ts_probes
    /\ xgetbv_executed' = (xgetbv_executed \/ detect_simd_level_xgetbv(cpu))
    /\ UNCHANGED early_calls
    /\ UNCHANGED <<selVars, kernelVars>>
    /\ UNCHANGED <<cpu, cached_level, threadVars, ts_returns,
                   resolver_returns, trapped, vsubVars>>

(***************************************************************************)
(* detect_simd_level_ts(), one action per access to shared state.          *)
(***************************************************************************)
\* return (simd_level_t)level; control goes back to the caller, which is
\* the test code or the body of a resolver.
TsReturn(t, lvl) ==
    IF entry[t] = "direct"
    THEN /\ ts_returns' = ts_returns \cup {lvl}
         /\ pc' = [pc EXCEPT ![t] = "idle"]
         /\ entry' = [entry EXCEPT ![t] = "none"]
         /\ level' = [level EXCEPT ![t] = -1]
         /\ detected' = [detected EXCEPT ![t] = -1]
    ELSE /\ ts_returns' = ts_returns \cup {lvl}
         /\ pc' = [pc EXCEPT ![t] = "select"]
         /\ level' = [level EXCEPT ![t] = lvl]
         /\ detected' = [detected EXCEPT ![t] = -1]
         /\ UNCHANGED entry

\* A thread calls detect_simd_level_ts() from test code.
CallTs(t) ==
    /\ ~trapped
    /\ pc[t] = "idle"
    /\ calls < MaxCalls
    /\ pc' = [pc EXCEPT ![t] = "load"]
    /\ entry' = [entry EXCEPT ![t] = "direct"]
    /\ calls' = calls + 1
    /\ UNCHANGED ts_probes
    /\ UNCHANGED xgetbv_executed
    /\ early_calls' = early_calls + (IF cached_level = -1 THEN 1 ELSE 0)
    /\ UNCHANGED <<selVars, kernelVars>>
    /\ UNCHANGED <<cpu, cached_level, level, detected, ts_returns, probed,
                   resolver_returns, trapped, vsubVars>>

\* int level = atomic_load_explicit(&cached_level, acquire); if (level < 0)
TsLoad(t) ==
    /\ ~trapped
    /\ pc[t] = "load"
    /\ IF NotYetInitialized(cached_level)
       THEN /\ pc' = [pc EXCEPT ![t] = "probe"]
            /\ level' = [level EXCEPT ![t] = cached_level]
            /\ UNCHANGED <<entry, detected, ts_returns>>
       ELSE TsReturn(t, cached_level)
    /\ UNCHANGED ts_probes
    /\ UNCHANGED xgetbv_executed
    /\ UNCHANGED early_calls
    /\ UNCHANGED <<selVars, kernelVars>>
    /\ UNCHANGED <<cpu, cached_level, calls, probed, resolver_returns,
                   trapped, vsubVars>>

\* simd_level_t detected = detect_simd_level();
TsProbe(t) ==
    /\ ~trapped
    /\ pc[t] = "probe"
    /\ detected' = [detected EXCEPT ![t] = detect_simd_level(cpu)]
    /\ pc' = [pc EXCEPT ![t] = "cas"]
    /\ ts_probes' = ts_probes + 1
    /\ xgetbv_executed' = (xgetbv_executed \/ detect_simd_level_xgetbv(cpu))
    /\ UNCHANGED early_calls
    /\ UNCHANGED <<selVars, kernelVars>>
    /\ UNCHANGED <<cpu, cached_level, entry, level, calls, ts_returns, probed,
                   resolver_returns, trapped, vsubVars>>

\* int expected = -1; if (atomic_compare_exchange_strong(...)) level = detected
TsCas(t) ==
    /\ ~trapped
    /\ pc[t] = "cas"
    /\ LET r == atomic_compare_exchange_strong(cached_level, CasExpected,
                                               detected[t])
       IN  /\ cached_level' = r.obj
           /\ IF r.ok
              THEN TsReturn(t, WonRaceLevel(level[t], detected[t]))
              ELSE /\ pc' = [pc EXCEPT ![t] = LostRaceNext]
                   /\ UNCHANGED <<entry, level, detected, ts_returns>>
    /\ UNCHANGED ts_probes
    /\ UNCHANGED xgetbv_executed
    /\ UNCHANGED early_calls
    /\ UNCHANGED <<selVars, kernelVars>>
    /\ UNCHANGED <<cpu, calls, probed, resolver_returns, trapped, vsubVars>>

\* The thread that lost the race returns what it detected itself.
TsReloadOwn(t) ==
    /\ ~trapped
    /\ pc[t] = "reload"
    /\ TsReturn(t, detected[t])
    /\ UNCHANGED ts_probes
    /\ UNCHANGED xgetbv_executed
    /\ UNCHANGED early_calls
    /\ UNCHANGED <<selVars, kernelVars>>
    /\ UNCHANGED <<cpu, cached_level, calls, probed, resolver_returns,
                   trapped, vsubVars>>

\* else level = atomic_load_explicit(&cached_level, acquire);
TsReload(t) ==
    /\ ~trapped
    /\ pc[t] = "reload"
    /\ TsReturn(t, cached_level)
    /\ UNCHANGED ts_probes
    /\ UNCHANGED xgetbv_executed
    /\ UNCHANGED early_calls
    /\ UNCHANGED <<selVars, kernelVars>>
    /\ UNCHANGED <<cpu, cached_level, calls, probed, resolver_returns,
                   trapped, vsubVars>>

(***************************************************************************)
(* A resolver written with EXPLICIT_RUNTIME_RESOLVER, called by thread t:  *)
(* name_impl() asks detect_simd_level_ts() for the tier and selects, the   *)
(* wrapper checks the result.                                              *)
(***************************************************************************)
CallResolver(t, name) ==
    /\ ~trapped
    /\ pc[t] = "idle"
    /\ calls < MaxCalls
    /\ pc' = [pc EXCEPT ![t] = "load"]
    /\ entry' = [entry EXCEPT ![t] = name]
    /\ calls' = calls + 1
    /\ UNCHANGED ts_probes
    /\ UNCHANGED xgetbv_executed
    /\ early_calls' = early_calls + (IF cached_level = -1 THEN 1 ELSE 0)
    /\ UNCHANGED <<selVars, kernelVars>>
    /\ UNCHANGED <<cpu, cached_level, level, detected, ts_returns, probed,
                   resolver_returns, trapped, vsubVars>>

ResolverFinish(t) ==
    /\ ~trapped
    /\ pc[t] = "select"
    /\ LET w == EXPLICIT_RUNTIME_RESOLVER(resolver_impl(entry[t], level[t]))
       IN  IF w.trap
           THEN /\ trapped' = TRUE
                /\ pc' = [pc EXCEPT ![t] = "trap"]
                /\ UNCHANGED <<entry, level, resolver_returns>>
           ELSE /\ resolver_returns' =
                       resolver_returns \cup {<<entry[t], w.result>>}
                /\ pc' = [pc EXCEPT ![t] = "idle"]
                /\ entry' = [entry EXCEPT ![t] = "none"]
                /\ level' = [level EXCEPT ![t] = -1]
                /\ UNCHANGED trapped
    /\ UNCHANGED ts_probes
    /\ UNCHANGED xgetbv_executed
    /\ UNCHANGED early_calls
    /\ UNCHANGED <<selVars, kernelVars>>
    /\ UNCHANGED <<cpu, cached_level, detected, calls, ts_returns, probed,
                   vsubVars>>

(***************************************************************************)
(* vector_sub_f32, an ifunc symbol: bound by the loader when the library   *)
(* is loaded, or on the first call through it.                             *)
(***************************************************************************)
VectorSubBind ==
    /\ ~trapped
    /\ vsub_binding = Unbound
    /\ LET r == IfuncRelocate(vsub_binding, cpu)
       IN  /\ vsub_binding' = r.target
           /\ vsub_resolutions' = vsub_resolutions + r.ran
    /\ UNCHANGED ts_probes
    /\ xgetbv_executed' =
           (xgetbv_executed
            \/ (IfuncRelocate(vsub_binding, cpu).ran = 1
                /\ detect_simd_level_xgetbv(cpu)))
    /\ UNCHANGED early_calls
    /\ UNCHANGED <<selVars, kernelVars>>
    /\ UNCHANGED <<cpu, cached_level, threadVars, ts_returns, probed,
                   resolver_returns, trapped, vsub_invoked>>

VectorSubCall(t) ==
    /\ ~trapped
    /\ pc[t] = "idle"
    /\ LET r == IfuncRelocate(vsub_binding, cpu)
       IN  /\ vsub_binding' = r.target
           /\ vsub_resolutions' = vsub_resolutions + r.ran
           /\ vsub_invoked' = vsub_invoked \cup {r.target}
    /\ UNCHANGED ts_probes
    /\ xgetbv_executed' =
           (xgetbv_executed
            \/ (IfuncRelocate(vsub_binding, cpu).ran = 1
                /\ detect_simd_level_xgetbv(cpu)))
    /\ UNCHANGED early_calls
    /\ UNCHANGED <<selVars, kernelVars>>
    /\ UNCHANGED <<cpu, cached_level, threadVars, ts_returns, probed,
                   resolver_returns, trapped>>

TsStep(t) ==
    \/ TsLoad(t)
    \/ TsProbe(t)
    \/ TsCas(t)
    \/ TsReload(t)

(***************************************************************************)
(* Threads that call the two detectors and vector_sub_f32.                 *)
(***************************************************************************)
Next ==
    \E t \in Threads :
        \/ DetectSimdLevel(t)
        \/ CallTs(t)
        \/ TsStep(t)
        \/ VectorSubBind
        \/ VectorSubCall(t)

Spec == Init /\ [][Next]_vars

(***************************************************************************)
(* Threads that call the wrapped resolvers.                                *)
(***************************************************************************)
NextResolve ==
    \E t \in Threads :
        \/ \E name \in Resolvers : CallResolver(t, name)
        \/ TsStep(t)
        \/ ResolverFinish(t)

SpecResolve == Init /\ [][NextResolve]_vars

(***************************************************************************)
(* Threads that call the two detectors while the hardware they measure     *)
(* changes between calls: a thread is rescheduled onto a core with other   *)
(* features, or the operating system changes XCR0.                         *)
(***************************************************************************)
Core(ecx1, ebx7, xcr0) ==
    [x86 |-> TRUE, eax0 |-> 7, ecx1 |-> ecx1, edx1 |-> 2 ^ 26,
     ebx7 |-> ebx7, xcr0 |-> xcr0]

\* Three kinds of core: SSE4.2 only; AVX2 with YMM state enabled; AVX-512F
\* with ZMM state enabled.
Cores ==
    {Core(2 ^ 20, 0, 0),
     Core(2 ^ 20 + 2 ^ 27 + 2 ^ 28, 2 ^ 5, 6),
     Core(2 ^ 20 + 2 ^ 27 + 2 ^ 28, 2 ^ 5 + 2 ^ 16, 230)}

InitMigrate ==
    /\ cpu \in Cores
    /\ InitProcess /\ InitSelectIdle /\ InitKernelIdle

Migrate ==
    /\ cpu' \in Cores \ {cpu}
    /\ UNCHANGED <<processVars, selVars, kernelVars>>

NextMigrate ==
    \/ \E t \in Threads :
           \/ DetectSimdLevel(t)
           \/ CallTs(t)
           \/ TsStep(t)
    \/ Migrate

SpecMigrate == InitMigrate /\ [][NextMigrate]_vars

(***************************************************************************)
(* The prober alone, on every combination of the register bits.            *)
(***************************************************************************)
NextProbe == \E t \in Threads : DetectSimdLevel(t)

SpecProbe == InitProbe /\ [][NextProbe]_vars


(***************************************************************************)
(* A selection function applied to a value of type simd_level_t.           *)
(***************************************************************************)
SelectVariant(name) ==
    /\ sel_out' = sel_out \cup {<<name, Select(name, sel_level)>>}
    /\ UNCHANGED <<cpu, processVars, sel_level, name_out, kernelVars>>

\* simd_level_name called on the level.
NameLevel ==
    /\ name_out' = name_out \cup {simd_level_name(sel_level)}
    /\ UNCHANGED <<cpu, processVars, sel_level, sel_out, kernelVars>>

NextSelect ==
    \/ \E name \in SelectionFunctions : SelectVariant(name)
    \/ NameLevel

SpecSelect == InitSelect /\ [][NextSelect]_vars

(***************************************************************************)
(* A call of one variant of vector_sub_f32 on the buffers.                 *)
(***************************************************************************)
RunKernel(v) ==
    /\ k_variant = "none"
    /\ k_variant' = v
    /\ k_res' = RunVariant(v, k_mem0, BufferBase("a"), BufferBase("b"),
                           OutAddr(k_alias), k_n)
    /\ UNCHANGED <<cpu, processVars, selVars, k_n, k_alias, k_mem0>>

NextKernel == \E v \in Variants : RunKernel(v)

SpecKernel == InitKernel /\ [][NextKernel]_vars

(***************************************************************************)
(* Vocabulary of the properties: the raw feature bits of the machine.      *)
(***************************************************************************)
HasBit(x, n) == Shr(x, n) % 2 = 1

CpuidAvailable == cpu.x86 /\ cpu.eax0 >= 1

MaskHas(b) ==
    CASE b = "sse2" -> HasBit(cpu.edx1, 26)
      [] b = "sse42" -> HasBit(cpu.ecx1, 20)
      [] b = "osxsave" -> HasBit(cpu.ecx1, 27)
      [] b = "avx" -> HasBit(cpu.ecx1, 28)
      [] b = "avx2" -> HasBit(cpu.ebx7, 5)
      [] b = "avx512f" -> HasBit(cpu.ebx7, 16)
      [] b = "xcr1" -> HasBit(cpu.xcr0, 1)
      [] b = "xcr2" -> HasBit(cpu.xcr0, 2)
      [] b = "xcr5" -> HasBit(cpu.xcr0, 5)
      [] b = "xcr6" -> HasBit(cpu.xcr0, 6)
      [] b = "xcr7" -> HasBit(cpu.xcr0, 7)

Lanes256 == MaskHas("osxsave") /\ MaskHas("xcr1") /\ MaskHas("xcr2")

Lanes512 ==
    MaskHas("osxsave") /\ MaskHas("xcr5") /\ MaskHas("xcr6") /\ MaskHas("xcr7")

\* The bits each tier requires.
Requires(T) ==
    CASE T = SIMD_AVX512F ->
             {"avx", "avx512f", "osxsave", "xcr5", "xcr6", "xcr7"}
      [] T = SIMD_AVX2 -> {"avx", "avx2", "osxsave", "xcr1", "xcr2"}
      [] T = SIMD_AVX -> {"avx", "osxsave", "xcr1", "xcr2"}
      [] T = SIMD_SSE4_2 -> {"sse42"}
      [] T = SIMD_SSE2 -> {"sse2"}
      [] OTHER -> {}

Satisfied(T) == \A b \in Requires(T) : MaskHas(b)

HighestSatisfied ==
    CHOOSE T \in Tiers : Satisfied(T) /\ \A U \in Tiers : Satisfied(U) => U <= T

(***************************************************************************)
(* C1: every value detect_simd_level_ts() has returned, to any thread and  *)
(* in any interleaving, is one and the same tier, and it is the tier       *)
(* detect_simd_level() returns on this machine.                            *)
(***************************************************************************)
CacheAgreement ==
    /\ Cardinality(ts_returns) <= 1
    /\ ts_returns \subseteq {detect_simd_level(cpu)}
    /\ \A v \in ts_returns : \A p \in probed : v = p

\* A thread has lost the compare-and-exchange after another one returned,
\* and the prober has been called directly as well.
CacheAgreementWitness ==
    /\ \E t \in Threads : pc[t] = "reload"
    /\ ts_returns # {}
    /\ probed # {}
    /\ calls = MaxCalls

(***************************************************************************)
(* C2: cached_level starts as the sentinel -1; its only change is from the *)
(* sentinel to a tier, so a resolved slot never changes; and once a call   *)
(* has returned the slot is resolved.                                      *)
(***************************************************************************)
CachedTierLifecycle ==
    /\ cached_level = -1
    /\ [][cached_level' # cached_level =>
              (cached_level = -1 /\ cached_level' \in Tiers)]_vars
    /\ [](ts_returns # {} => cached_level \in Tiers)

\* The slot is resolved while a thread that probed is about to attempt its
\* own compare-and-exchange.
CachedTierLifecycleWitness ==
    /\ cached_level \in Tiers
    /\ \E t \in Threads : pc[t] = "cas"
    /\ ts_returns # {}

(***************************************************************************)
(* C3: a wrapped resolver never hands NULL to its caller; when name_impl() *)
(* yields NULL the wrapper traps, and after the trap the process takes no  *)
(* further step.                                                           *)
(***************************************************************************)
ResolverNeverReturnsNull ==
    /\ [](\A r \in resolver_returns : r[2] # NULL)
    /\ [][/\ ~trapped
          /\ \A t \in Threads :
                (/\ pc[t] = "select"
                 /\ pc'[t] # "select"
                 /\ resolver_impl(entry[t], level[t]) = NULL)
                => (trapped' /\ pc'[t] = "trap")]_vars

\* The misconfigured resolver has trapped, and another resolver returned.
ResolverTrapWitness ==
    /\ trapped
    /\ \E t \in Threads : pc[t] = "trap" /\ entry[t] = "null_resolver"
    /\ resolver_returns # {}

(***************************************************************************)
(* C4: the resolution of vector_sub_f32 takes its tier from the cached     *)
(* detector: once the symbol is bound the cached slot is resolved, and the *)
(* target is the variant selected for the cached tier.                     *)
(***************************************************************************)
ResolutionUsesCachedTier ==
    vsub_binding # Unbound =>
        /\ cached_level \in Tiers
        /\ vsub_binding = vector_sub_f32_select(cached_level)

FirstMatchingTier ==
    IF MaskHas("avx") /\ MaskHas("avx512f") /\ Lanes512 THEN SIMD_AVX512F
    ELSE IF MaskHas("avx") /\ MaskHas("avx2") /\ Lanes256 THEN SIMD_AVX2
    ELSE IF MaskHas("avx") /\ Lanes256 THEN SIMD_AVX
    ELSE IF MaskHas("sse42") THEN SIMD_SSE4_2
    ELSE IF MaskHas("sse2") THEN SIMD_SSE2
    ELSE SIMD_SCALAR

DescendingPriority ==
    CpuidAvailable => \A r \in probed : r = FirstMatchingTier

\* A machine with the AVX-512F bit whose OS enables only 256-bit state has
\* been probed, and the answer was AVX.
DescendingPriorityWitness ==
    /\ CpuidAvailable
    /\ MaskHas("avx512f") /\ ~Lanes512 /\ ~MaskHas("avx2")
    /\ probed = {SIMD_AVX}

(***************************************************************************)
(* C7: detect_simd_level() returns AVX or AVX2 only if the AVX bit, the    *)
(* OSXSAVE bit and XCR0 bits 1 and 2 are set, and AVX-512F only if the     *)
(* AVX-512F bit, the OSXSAVE bit and XCR0 bits 5, 6 and 7 are set.         *)
(***************************************************************************)
WideTierNeedsOsSupport ==
    \A r \in probed :
        /\ r \in {SIMD_AVX, SIMD_AVX2} =>
               (MaskHas("avx") /\ MaskHas("osxsave")
                /\ MaskHas("xcr1") /\ MaskHas("xcr2"))
        /\ r = SIMD_AVX512F =>
               (MaskHas("avx512f") /\ MaskHas("osxsave")
                /\ MaskHas("xcr5") /\ MaskHas("xcr6") /\ MaskHas("xcr7"))

\* A machine with the AVX and AVX2 bits and only one of XCR0 bits 1 and 2
\* has been probed, and the answer was a narrow tier.
WideTierNeedsOsSupportWitness ==
    /\ CpuidAvailable
    /\ MaskHas("avx") /\ MaskHas("avx2") /\ MaskHas("osxsave")
    /\ MaskHas("xcr1") /\ ~MaskHas("xcr2")
    /\ probed = {SIMD_SSE4_2}

(***************************************************************************)
(* C8: monotonic fallback: for every tier T and every bit X that T         *)
(* requires, on a mask with X cleared detect_simd_level() returns a tier   *)
(* strictly below T, the highest tier whose requirements the mask meets.   *)
(***************************************************************************)
MonotonicFallback ==
    CpuidAvailable =>
        \A r \in probed : \A T \in Tiers : \A X \in Requires(T) :
            ~MaskHas(X) => (r < T /\ r = HighestSatisfied)

(***************************************************************************)
(* C9: whenever detect_simd_level() returns tier T, the raw feature set    *)
(* meets the requirements of every tier below T.                           *)
(***************************************************************************)
TierImpliesLowerTiers ==
    \A r \in probed : \A U \in Tiers : U < r => Satisfied(U)

(***************************************************************************)
(* C10: on a build without cpuid, or when leaf 0 reports maximum leaf 0,   *)
(* detect_simd_level() returns Scalar whatever the other feature bits are. *)
(***************************************************************************)
ScalarWithoutCpuid ==
    (~cpu.x86 \/ cpu.eax0 = 0) => probed \subseteq {SIMD_SCALAR}

\* An x86 machine whose leaf 0 reports maximum leaf 0, with every feature
\* bit and every XCR0 bit set, has been probed and the call returned Scalar.
ScalarWithoutCpuidWitness ==
    /\ cpu.x86 /\ cpu.eax0 = 0
    /\ \A T \in Tiers : Satisfied(T)
    /\ probed = {SIMD_SCALAR}

Rank(p) ==
    CASE p = "load" -> 1
      [] p = "probe" -> 2
      [] p = "cas" -> 3
      [] p = "reload" -> 4
      [] OTHER -> 5

InTs(t) == pc[t] \in {"load", "probe", "cas", "reload"}

BoundedWaitFree ==
    /\ [][\A t \in Threads :
             (InTs(t) /\ pc'[t] # pc[t]) => Rank(pc'[t]) > Rank(pc[t])]_vars
    /\ [](\A t \in Threads : InTs(t) => ENABLED TsStep(t))

\* A thread is at its second load after a lost exchange while another
\* thread is in the middle of its own call.
BoundedWaitFreeWitness ==
    \E t, u \in Threads :
        /\ t # u
        /\ pc[t] = "reload"
        /\ pc[u] \in {"load", "probe", "cas"}

(***************************************************************************)
(* C13: every value detect_simd_level_ts() returns is a tier in 0..5,      *)
(* never the sentinel, and the cached slot holds -1 or a value in 0..5.    *)
(***************************************************************************)
ValidTier ==
    /\ ts_returns \subseteq SIMD_SCALAR..SIMD_AVX512F
    /\ cached_level \in {-1} \cup (SIMD_SCALAR..SIMD_AVX512F)

\* The highest tier has been published and returned, and a thread that read
\* the sentinel has still to attempt its exchange.
ValidTierWitness ==
    /\ cached_level = SIMD_AVX512F
    /\ ts_returns = {SIMD_AVX512F}
    /\ \E t \in Threads : pc[t] = "cas" /\ level[t] = -1

(***************************************************************************)
(* C15: the pointer a wrapped resolver returns is the variant its          *)
(* selection function maps the cached tier to, passed through unchanged.   *)
(***************************************************************************)
ResolverMatchesCachedTier ==
    \A r \in resolver_returns :
        /\ cached_level \in Tiers
        /\ r[2] = resolver_impl(r[1], cached_level)

\* sample_resolver has returned the AVX2 variant on a machine of the
\* AVX-512F tier, and scalar_only_resolver has returned too.
ResolverMatchesCachedTierWitness ==
    /\ cached_level = SIMD_AVX512F
    /\ <<"sample_resolver", "sample_func_avx2">> \in resolver_returns
    /\ <<"scalar_only_resolver", "sample_func_scalar">> \in resolver_returns

(***************************************************************************)
(* C16: dispatch idempotence: all invocations of one resolver, by any      *)
(* thread, return the same variant address.                                *)
(***************************************************************************)
DispatchIdempotent ==
    \A r1, r2 \in resolver_returns : r1[1] = r2[1] => r1[2] = r2[2]

\* sample_resolver has been called by threads that raced for the cache and
\* again afterwards, on a machine where it selects a vector variant.
DispatchIdempotentWitness ==
    /\ calls = MaxCalls
    /\ ts_probes = NumThreads
    /\ \A t \in Threads : pc[t] = "idle"
    /\ resolver_returns = {<<"sample_resolver", "sample_func_sse2">>}

(***************************************************************************)
(* C14: resolver total coverage: for every tier and for every value        *)
(* outside the enumeration, each selection function returns a non-null     *)
(* variant, and the values outside the enumeration get the scalar variant. *)
(***************************************************************************)
ScalarVariantOf(name) ==
    CASE name = "vector_sub_f32_resolver" -> "vector_sub_f32_scalar"
      [] name = "test_func_resolver" -> "test_func_scalar"
      [] OTHER -> "sample_func_scalar"

TotalCoverage ==
    \A r \in sel_out :
        /\ r[2] # NULL
        /\ sel_level \notin Tiers => r[2] = ScalarVariantOf(r[1])

\* Every selection function has been applied to a value outside 0..5.
TotalCoverageWitness ==
    /\ sel_level \notin Tiers
    /\ {r[1] : r \in sel_out} = SelectionFunctions

(***************************************************************************)
(* C18: with out a buffer of its own, every variant leaves in out[i], for  *)
(* every i < n, the scalar reference a[i] - b[i], for every n, multiple of *)
(* the chunk width or not.                                                 *)
(***************************************************************************)
KA(i) == k_mem0[BufferBase("a") + i]
KB(i) == k_mem0[BufferBase("b") + i]
KOut(i) == k_res.mem[OutAddr(k_alias) + i]

VariantsAgree ==
    (k_variant # "none" /\ k_alias = "none") =>
        \A i \in 0..(k_n - 1) : KOut(i) = KA(i) - KB(i)

\* The AVX-512F kernel has run on a length with two full chunks and a
\* remainder.
VariantsAgreeWitness ==
    /\ k_variant = "vector_sub_f32_avx512f"
    /\ k_alias = "none"
    /\ k_n = 33
    /\ k_res.i = k_n

(***************************************************************************)
(* C19: a call of any variant with n = 0 returns and leaves every element  *)
(* of the output buffer, and of memory, as it was.                         *)
(***************************************************************************)
ZeroLengthNoOp ==
    (k_variant # "none" /\ k_n = 0) =>
        /\ k_res.mem = k_mem0
        /\ \A x \in Addresses : k_res.writes[x] = 0

\* A wide kernel has been called with n = 0 and out on one of its inputs.
ZeroLengthNoOpWitness ==
    /\ k_variant = "vector_sub_f32_avx512f"
    /\ k_n = 0
    /\ k_alias = "out_a"

(***************************************************************************)
(* C20: for every chunked variant and every n, a call with out == a or     *)
(* out == b leaves in out[i] the difference of the a[i] and b[i] of before *)
(* the call, as the call with a separate output buffer does.               *)
(***************************************************************************)
Chunked == Variants \ {"vector_sub_f32_scalar"}

SamePositionAliasing ==
    (k_variant \in Chunked /\ k_alias # "none") =>
        \A i \in 0..(k_n - 1) : KOut(i) = KA(i) - KB(i)

\* The AVX kernel has run with out == b on a length with chunks and a
\* remainder.
SamePositionAliasingWitness ==
    /\ k_variant = "vector_sub_f32_avx"
    /\ k_alias = "out_b"
    /\ k_n > 16 /\ k_n % 8 # 0

(***************************************************************************)
(* C21: simd_level_name returns "Scalar", "SSE2", "SSE4.2", "AVX", "AVX2", *)
(* "AVX-512F" for the levels 0 to 5 in this order, and "Unknown" for every *)
(* value outside 0..5.                                                     *)
(***************************************************************************)
expected_names == <<"Scalar", "SSE2", "SSE4.2", "AVX", "AVX2", "AVX-512F">>

LevelNames ==
    \A nm \in name_out :
        nm = IF sel_level \in 0..5 THEN expected_names[sel_level + 1]
             ELSE "Unknown"

\* The name of a value above the enumeration has been asked for.
LevelNamesWitness ==
    /\ sel_level > SIMD_AVX512F
    /\ name_out # {}

(***************************************************************************)
(* C22: with the AVX bit set and 256-bit state not enabled (OSXSAVE clear  *)
(* or XCR0 bits 1 and 2 not both set), detect_simd_level() returns SSE4.2  *)
(* if the SSE4.2 bit is set, else SSE2 if the SSE2 bit is set, else        *)
(* Scalar; with the AVX-512F bit set and 512-bit state not enabled it      *)
(* returns AVX2 or AVX when those are satisfied.                           *)
(***************************************************************************)
NarrowTier ==
    IF MaskHas("sse42") THEN SIMD_SSE4_2
    ELSE IF MaskHas("sse2") THEN SIMD_SSE2
    ELSE SIMD_SCALAR

Leaf7NeedsMaxLeaf ==
    (cpu.x86 /\ cpu.eax0 \in 1..6) => \A r \in probed : r <= SIMD_AVX

(***************************************************************************)
(* C26: detect_simd_level() executes xgetbv_x86 only when the OSXSAVE bit  *)
(* of leaf 1 is set; when the bit is clear the mask is taken as 0 and      *)
(* neither 256-bit nor 512-bit lanes count as enabled, whatever XCR0       *)
(* holds.                                                                  *)
(***************************************************************************)
XgetbvOnlyWithOsxsave ==
    /\ xgetbv_executed => (CpuidAvailable /\ MaskHas("osxsave"))
    /\ (CpuidAvailable /\ ~MaskHas("osxsave") /\ probed # {}) =>
           /\ Features(cpu).xcr0 = 0
           /\ ~ymm_ok(Features(cpu)) /\ ~zmm_ok(Features(cpu))
           /\ \A r \in probed : r <= SIMD_SSE4_2

\* A machine with OSXSAVE clear, the AVX and AVX-512F bits set and XCR0
\* fully set has been probed without a read of XCR0.
XgetbvOnlyWithOsxsaveWitness ==
    /\ CpuidAvailable /\ ~MaskHas("osxsave")
    /\ MaskHas("avx") /\ MaskHas("avx512f") /\ MaskHas("sse42")
    /\ cpu.xcr0 = 230
    /\ probed = {SIMD_SSE4_2}
    /\ ~xgetbv_executed

(***************************************************************************)
(* C23: agreement of detect_simd_level_ts() does not need a deterministic  *)
(* prober: when concurrent first callers compute different tiers, the      *)
(* winner of the compare-and-exchange, every loser and every later caller  *)
(* return the one value the winner published.                              *)
(***************************************************************************)
WinnerValueAgreement ==
    /\ Cardinality(ts_returns) <= 1
    /\ ts_returns \subseteq {cached_level}

\* The winner has returned, and a thread that detected another tier has
\* lost the compare-and-exchange.
WinnerValueAgreementWitness ==
    /\ ts_returns = {cached_level}
    /\ \E t \in Threads :
           /\ pc[t] = "reload"
           /\ detected[t] \in Tiers \ {cached_level}

(***************************************************************************)
(* C24: a call of detect_simd_level() leaves cached_level as it is (an     *)
(* unresolved slot stays unresolved: only a probe made inside              *)
(* detect_simd_level_ts() resolves it) and returns what the hardware       *)
(* measures at the time of the call, not what the cache holds.             *)
(***************************************************************************)
ProberLeavesCacheAlone ==
    /\ [][(\E t \in Threads : DetectSimdLevel(t)) =>
              (/\ cached_level' = cached_level
               /\ detect_simd_level(cpu) \in probed')]_vars
    /\ [](ts_probes = 0 => cached_level = -1)

\* The prober has been called on an unresolved slot and left it so, and
\* has returned two different tiers.
ProberLeavesCacheAloneWitness ==
    /\ cached_level = -1
    /\ Cardinality(probed) >= 2
    /\ \E t \in Threads : pc[t] = "probe"

(***************************************************************************)
(* C25: a call of detect_simd_level_ts() that reads a resolved slot        *)
(* returns the cached value without a probe; only calls that read the      *)
(* sentinel probe, so there are at most as many probes as calls begun      *)
(* before the first publication.                                           *)
(***************************************************************************)
NoProbeAfterPublication ==
    /\ [][\A t \in Threads :
              (pc[t] = "load" /\ pc'[t] # "load" /\ cached_level \in Tiers) =>
                  (/\ pc'[t] = "idle"
                   /\ cached_level \in ts_returns'
                   /\ ts_probes' = ts_probes)]_vars
    /\ [](\A t \in Threads : pc[t] \in {"probe", "cas"} => level[t] = -1)
    /\ [](ts_probes <= early_calls)

\* Every thread began a call before the publication and probed, and calls
\* begun after it have returned.
NoProbeAfterPublicationWitness ==
    /\ cached_level \in Tiers
    /\ ts_probes = NumThreads /\ early_calls = NumThreads
    /\ calls > early_calls
    /\ \A t \in Threads : pc[t] = "idle"

(***************************************************************************)
(* C29: the resolver of every exported operation goes through              *)
(* EXPLICIT_RUNTIME_RESOLVER: the implementation bound to vector_sub_f32   *)
(* is a pointer that passed the wrapper's null check and was returned by   *)
(* the wrapper.                                                            *)
(***************************************************************************)
BindingPassedWrapper ==
    vsub_binding # Unbound =>
        \E r \in resolver_returns : r[2] = vsub_binding

(***************************************************************************)
(* C30: for every n each kernel stores to out[0..n-1] once each and to no  *)
(* other address, and loads only a[i] and b[i] with i < n.                 *)
(***************************************************************************)
ExactFrame ==
    k_variant # "none" =>
        /\ \A x \in Addresses :
               k_res.writes[x] =
                   IF x - OutAddr(k_alias) \in 0..(k_n - 1) THEN 1 ELSE 0
        /\ k_res.reads \subseteq
               {BufferBase("a") + i : i \in 0..(k_n - 1)}
                   \cup {BufferBase("b") + i : i \in 0..(k_n - 1)}

\* The AVX kernel has run on a length one short of a whole number of
\* chunks.
ExactFrameWitness ==
    /\ k_variant = "vector_sub_f32_avx"
    /\ k_alias = "none"
    /\ k_n > 8 /\ k_n % 8 = 7
    /\ k_res.i = k_n

TypeOK ==
    /\ cpu \in Machines
    /\ cached_level \in {-1} \cup Tiers
    /\ pc \in [Threads -> {"idle", "load", "probe", "cas", "reload",
                           "select", "trap"}]
    /\ entry \in [Threads -> {"none", "direct"} \cup Resolvers]
    /\ calls \in 0..MaxCalls
    /\ trapped \in BOOLEAN
    /\ vsub_resolutions \in 0..1
    /\ sel_level \in LevelInputs
    /\ sel_out \subseteq SelectionFunctions \X (Variants \cup
           {"sample_func_scalar", "sample_func_sse2", "sample_func_avx2",
            "test_func_scalar", "test_func_sse2", "test_func_avx",
            "test_func_avx2", "test_func_avx512"})
    /\ name_out \subseteq {simd_level_name(l) : l \in LevelInputs}
    /\ xgetbv_executed \in BOOLEAN
    /\ early_calls \in 0..MaxCalls
    /\ k_n \in 0..MaxN
    /\ k_alias \in AliasModes
    /\ k_variant \in Variants \cup {"none"}
    /\ k_res.i \in 0..MaxN
====
